---- MODULE Spec2Model ----
(***************************************************************************)
(* Recovery parsing and sanitisation pipeline of functions/api/objects.js. *)
(*                                                                         *)
(* A JavaScript string is modelled as a sequence of one-character strings, *)
(* so that trim, toLowerCase, includes, indexOf, slice, replace and        *)
(* JSON.parse are computed character by character.                         *)
(*                                                                         *)
(* A letter with a diacritic is one character, written with an ASCII mark  *)
(* after the letter: "a'" is a-acute, "z^" is z-caron ("pl" "a'" "z^" is   *)
(* the Czech word for beach).                                              *)
(*                                                                         *)
(* A JavaScript value is a record tagged by its type:                      *)
(*   [t |-> "undef"]  [t |-> "null"]  [t |-> "bool", b |-> BOOLEAN]        *)
(*   [t |-> "num", n |-> literal]   [t |-> "str", s |-> characters]        *)
(*   [t |-> "arr", a |-> values]                                           *)
(*   [t |-> "obj", o |-> sequence of [k |-> characters, v |-> value]]      *)
(***************************************************************************)
EXTENDS Integers, Sequences, FiniteSets, TLC

VARIABLES
  handler,        \* which version of onRequestPost serves the request
  req,            \* the request: content type, uploaded file, AI binding
  pc,             \* the position of the handler (or of the function under test)
  ai,             \* what env.AI.run returned last
  inventoryText,  \* the text of phase 1 (two-phase version)
  description,    \* the text resolved from ai (phase2Text in the two-phase version)
  parsed,         \* what tryParseJsonFromText returned
  resp,           \* the response returned to the caller
  calls,          \* the number of calls of env.AI.run
  text,           \* the argument of tryParseJsonFromText under test
  objects,        \* the argument of cleanObjects under test
  cleaned         \* what cleanObjects returned

vars == <<handler, req, pc, ai, inventoryText, description, parsed, resp, calls,
          text, objects, cleaned>>

---------------------------------------------------------------------------
(* JavaScript values *)

JUndef == [t |-> "undef"]
JNull == [t |-> "null"]
JBool(b) == [t |-> "bool", b |-> b]
JNum(n) == [t |-> "num", n |-> n]
JStr(s) == [t |-> "str", s |-> s]
JArr(a) == [t |-> "arr", a |-> a]
JObj(o) == [t |-> "obj", o |-> o]
Member(k, v) == [k |-> k, v |-> v]

IsString(v) == v.t = "str"
IsArray(v) == v.t = "arr"
\* typeof v === "object" (true of null, arrays and objects)
TypeofObject(v) == v.t \in {"null", "arr", "obj"}
\* JavaScript truthiness of a value
Truthy(v) ==
  CASE v.t \in {"undef", "null"} -> FALSE
    [] v.t = "bool" -> v.b
    [] v.t = "num" -> \E i \in 1..Len(v.n) :
                        /\ v.n[i] \in {"1", "2", "3", "4", "5", "6", "7", "8", "9"}
                        /\ \A j \in 1..i : v.n[j] \notin {"e", "E"}
    [] v.t = "str" -> v.s # <<>>
    [] OTHER -> TRUE

\* o.key: the value of a property, undefined when o has no such property
\* (or is a number, a boolean or an array, which have none of the keys read)
Get(v, key) ==
  IF v.t = "obj" /\ \E i \in 1..Len(v.o) : v.o[i].k = key
  THEN v.o[CHOOSE i \in 1..Len(v.o) : v.o[i].k = key].v
  ELSE JUndef

\* a ?? b
Coalesce(a, b) == IF a.t \in {"undef", "null"} THEN b ELSE a

---------------------------------------------------------------------------
(* String primitives *)

\* F(v), with v computed once: v is bound as a value, where a LET definition
\* stands for an expression that each use computes again
With(v, F(_)) == CHOOSE y \in {F(x) : x \in {v}} : TRUE

Min(S) == CHOOSE x \in S : \A y \in S : x <= y
Max(S) == CHOOSE x \in S : \A y \in S : x >= y

\* the characters String.prototype.trim removes (those the inputs contain)
WhiteSpace == {" ", "\n", "\t", "\r"}

RECURSIVE trimStart(_, _), trimEnd(_, _)
\* the first position from i on that holds no white space
trimStart(s, i) == IF i <= Len(s) /\ s[i] \in WhiteSpace THEN trimStart(s, i + 1) ELSE i
\* the last position up to i that holds no white space
trimEnd(s, i) == IF i >= 1 /\ s[i] \in WhiteSpace THEN trimEnd(s, i - 1) ELSE i
trim(s) == With(s, LAMBDA v : SubSeq(v, trimStart(v, 1), trimEnd(v, Len(v))))

UpperCase == <<"A", "B", "C", "D", "E", "F", "G", "H", "I", "J", "K", "L",
  "M", "N", "O", "P", "Q", "R", "S", "T", "U", "V", "W", "X", "Y", "Z",
  "A'", "C^", "D^", "E'", "E^", "I'", "N^", "O'", "R^", "S^", "T^", "U'",
  "Uo", "Y'", "Z^">>
LowerCase == <<"a", "b", "c", "d", "e", "f", "g", "h", "i", "j", "k", "l",
  "m", "n", "o", "p", "q", "r", "s", "t", "u", "v", "w", "x", "y", "z",
  "a'", "c^", "d^", "e'", "e^", "i'", "n^", "o'", "r^", "s^", "t^", "u'",
  "uo", "y'", "z^">>

lowerChar(c) ==
  IF \E j \in 1..Len(UpperCase) : UpperCase[j] = c
  THEN LowerCase[CHOOSE j \in 1..Len(UpperCase) : UpperCase[j] = c]
  ELSE c
toLowerCase(s) == With(s, LAMBDA v : [i \in 1..Len(v) |-> lowerChar(v[i])])

\* does sub occur in s at (1-based) position i
OccursAt(s, sub, i) ==
  /\ i >= 1
  /\ i + Len(sub) - 1 <= Len(s)
  /\ SubSeq(s, i, i + Len(sub) - 1) = sub

includes(s, sub) ==
  With(s, LAMBDA v : \E i \in 1..(Len(v) + 1) : OccursAt(v, sub, i))
startsWith(s, sub) == OccursAt(s, sub, 1)
endsWith(s, sub) == OccursAt(s, sub, Len(s) - Len(sub) + 1)

\* 1-based positions; 0 stands for JavaScript's -1
indexOf(s, c) ==
  IF \A i \in 1..Len(s) : s[i] # c THEN 0 ELSE Min({i \in 1..Len(s) : s[i] = c})
\* lastIndexOf that stops at the first occurrence
lastIndexOfFirst(s, c) ==
  IF \A i \in 1..Len(s) : s[i] # c THEN 0 ELSE Min({i \in 1..Len(s) : s[i] = c})
lastIndexOf(s, c) ==
  IF \A i \in 1..Len(s) : s[i] # c THEN 0 ELSE Max({i \in 1..Len(s) : s[i] = c})

\* s.replace(/pat/g, rep) for a literal pattern: leftmost matches, no overlap,
\* the replacement is not scanned again (one step per match)
RECURSIVE replaceFrom(_, _, _, _)
replaceFrom(s, pat, rep, i) ==
  IF \A j \in i..Len(s) : ~OccursAt(s, pat, j) THEN SubSeq(s, i, Len(s))
  ELSE With(Min({j \in i..Len(s) : OccursAt(s, pat, j)}),
            LAMBDA m : SubSeq(s, i, m - 1) \o rep \o
                       replaceFrom(s, pat, rep, m + Len(pat)))
replaceAll(s, pat, rep) == With(s, LAMBDA v : replaceFrom(v, pat, rep, 1))

---------------------------------------------------------------------------
(* JSON.parse and JSON.stringify over characters *)

Fail == [ok |-> FALSE, val |-> JNull, pos |-> 0]
Ok(v, p) == [ok |-> TRUE, val |-> v, pos |-> p]

JsonWs == {" ", "\n", "\t", "\r"}
\* a raw control character inside a string literal is a syntax error
ControlChars == {"\n", "\t", "\r"}
\* the character after a backslash in a string literal, and what it denotes
\* (the inputs hold no \b, \f or \u escape)
Escapes ==
  ("\"" :> "\"") @@ ("\\" :> "\\") @@ ("/" :> "/") @@
  ("n" :> "\n") @@ ("t" :> "\t") @@ ("r" :> "\r")

Digits == <<"0", "1", "2", "3", "4", "5", "6", "7", "8", "9">>
IsDigit(c) == \E d \in 1..Len(Digits) : Digits[d] = c

\* the first position from i on that holds no white space
RECURSIVE SkipWs(_, _)
SkipWs(s, i) == IF i <= Len(s) /\ s[i] \in JsonWs THEN SkipWs(s, i + 1) ELSE i

\* the position after the run of digits that starts at i
RECURSIVE RunEnd(_, _)
RunEnd(s, i) == IF i <= Len(s) /\ IsDigit(s[i]) THEN RunEnd(s, i + 1) ELSE i

At(s, i, c) == i >= 1 /\ i <= Len(s) /\ s[i] = c

\* a number literal: -? int frac? exp?; its value is kept as its text
ParseNumber(s, i) ==
  LET a == IF At(s, i, "-") THEN i + 1 ELSE i
      b == RunEnd(s, a)
      intOk == b > a /\ (s[a] = "0" => b = a + 1)
      c == IF At(s, b, ".") THEN RunEnd(s, b + 1) ELSE b
      fracOk == c = b \/ c > b + 1
      hasExp == At(s, c, "e") \/ At(s, c, "E")
      d0 == IF At(s, c + 1, "+") \/ At(s, c + 1, "-") THEN c + 2 ELSE c + 1
      d == IF hasExp THEN RunEnd(s, d0) ELSE c
      expOk == ~hasExp \/ d > d0
  IN IF intOk /\ fracOk /\ expOk THEN Ok(JNum(SubSeq(s, i, d - 1)), d) ELSE Fail

\* the number of backslashes in a row that end right before position j,
\* counted from position lo on
RECURSIVE BackslashRun(_, _, _)
BackslashRun(s, lo, j) ==
  IF j - 1 >= lo /\ s[j - 1] = "\\" THEN 1 + BackslashRun(s, lo, j - 1) ELSE 0

IsEscaped(s, lo, i) == BackslashRun(s, lo, i) % 2 = 1

NotDropped(c) == c # ""

\* the characters lo..hi-1 of a string literal, decoded: a character after an
\* odd run of backslashes is an escaped one, a backslash after an even run
\* escapes the next character and goes
DecodeString(s, lo, hi) ==
  IF \E i \in lo..(hi - 1) :
       \/ IsEscaped(s, lo, i) /\ s[i] \notin DOMAIN Escapes
       \/ ~IsEscaped(s, lo, i) /\ s[i] \in ControlChars
  THEN Fail
  ELSE Ok(JStr(SelectSeq([k \in 1..(hi - lo) |->
                            IF IsEscaped(s, lo, lo + k - 1) THEN Escapes[s[lo + k - 1]]
                            ELSE IF s[lo + k - 1] = "\\" THEN ""
                            ELSE s[lo + k - 1]],
                         NotDropped)),
          hi + 1)

\* the rest of a string literal whose opening quote precedes position lo: it
\* ends at the first quote that no backslash escapes
ScanString(s, lo) ==
  IF \A j \in lo..Len(s) : ~(s[j] = "\"" /\ ~IsEscaped(s, lo, j)) THEN Fail
  ELSE With(Min({j \in lo..Len(s) : s[j] = "\"" /\ ~IsEscaped(s, lo, j)}),
            LAMBDA hi : DecodeString(s, lo, hi))

\* a repeated key keeps its first place and takes the last value
Put(members, k, v) ==
  With(members,
       LAMBDA ms : IF \E i \in 1..Len(ms) : ms[i].k = k
                   THEN [i \in 1..Len(ms) |->
                           IF ms[i].k = k THEN Member(k, v) ELSE ms[i]]
                   ELSE Append(ms, Member(k, v)))

\* the literals true, false, null
Keyword ==
  [true |-> <<"t", "r", "u", "e">>,
   false |-> <<"f", "a", "l", "s", "e">>,
   null |-> <<"n", "u", "l", "l">>]

RECURSIVE ParseValue(_, _), ParseMembers(_, _, _), ParseElements(_, _, _)

\* the value that starts at position i, which holds no white space
ParseValueAt(s, i) ==
  IF i > Len(s) THEN Fail
  ELSE IF s[i] = "{" THEN
    With(SkipWs(s, i + 1),
         LAMBDA j : IF At(s, j, "}") THEN Ok(JObj(<<>>), j + 1)
                    ELSE ParseMembers(s, j, <<>>))
  ELSE IF s[i] = "[" THEN
    With(SkipWs(s, i + 1),
         LAMBDA j : IF At(s, j, "]") THEN Ok(JArr(<<>>), j + 1)
                    ELSE ParseElements(s, j, <<>>))
  ELSE IF s[i] = "\"" THEN ScanString(s, i + 1)
  ELSE IF s[i] = "-" \/ IsDigit(s[i]) THEN ParseNumber(s, i)
  ELSE IF OccursAt(s, Keyword.true, i) THEN Ok(JBool(TRUE), i + Len(Keyword.true))
  ELSE IF OccursAt(s, Keyword.false, i) THEN Ok(JBool(FALSE), i + Len(Keyword.false))
  ELSE IF OccursAt(s, Keyword.null, i) THEN Ok(JNull, i + Len(Keyword.null))
  ELSE Fail

ParseValue(s, i0) == With(SkipWs(s, i0), LAMBDA i : ParseValueAt(s, i))

\* after the member k: v, which ends before position d (white space skipped)
AfterMember(s, acc, d) ==
  IF At(s, d, "}") THEN Ok(JObj(acc), d + 1)
  ELSE IF At(s, d, ",") THEN With(SkipWs(s, d + 1), LAMBDA i : ParseMembers(s, i, acc))
  ELSE Fail

\* the value of the member whose key k ends before position c (white space skipped)
MemberValue(s, acc, k, c) ==
  IF ~At(s, c, ":") THEN Fail
  ELSE With(ParseValue(s, c + 1),
            LAMBDA v : IF ~v.ok THEN Fail
                       ELSE With(SkipWs(s, v.pos),
                                 LAMBDA d : AfterMember(s, Put(acc, k, v.val), d)))

\* "key": value pairs from position i, up to the closing brace
ParseMembers(s, i, acc) ==
  IF ~At(s, i, "\"") THEN Fail
  ELSE With(ScanString(s, i + 1),
            LAMBDA k : IF ~k.ok THEN Fail
                       ELSE With(SkipWs(s, k.pos),
                                 LAMBDA c : MemberValue(s, acc, k.val.s, c)))

\* after an element, which ends before position d (white space skipped)
AfterElement(s, acc, d) ==
  IF At(s, d, "]") THEN Ok(JArr(acc), d + 1)
  ELSE IF At(s, d, ",") THEN ParseElements(s, d + 1, acc)
  ELSE Fail

\* values from position i, up to the closing bracket
ParseElements(s, i, acc) ==
  With(ParseValue(s, i),
       LAMBDA v : IF ~v.ok THEN Fail
                  ELSE With(SkipWs(s, v.pos),
                            LAMBDA d : AfterElement(s, Append(acc, v.val), d)))

\* JSON.parse(s): ok is FALSE where JSON.parse throws a SyntaxError
ParseWhole(s) ==
  With(ParseValue(s, 1),
       LAMBDA r : IF r.ok /\ SkipWs(s, r.pos) = Len(s) + 1
                  THEN [ok |-> TRUE, val |-> r.val]
                  ELSE [ok |-> FALSE, val |-> JNull])
JSONparse(s) == With(s, LAMBDA v : ParseWhole(v))

\* parts[lo] \o ... \o parts[hi], by halves
RECURSIVE ConcatRange(_, _, _)
ConcatRange(parts, lo, hi) ==
  IF lo > hi THEN <<>>
  ELSE IF lo = hi THEN parts[lo]
  ELSE LET mid == (lo + hi) \div 2
       IN ConcatRange(parts, lo, mid) \o ConcatRange(parts, mid + 1, hi)
Concat(parts) == ConcatRange(parts, 1, Len(parts))

\* a string literal: quotes, backslashes and control characters escaped
EscapeChar(c) ==
  CASE c = "\"" -> <<"\\", "\"">>
    [] c = "\\" -> <<"\\", "\\">>
    [] c = "\n" -> <<"\\", "n">>
    [] c = "\t" -> <<"\\", "t">>
    [] c = "\r" -> <<"\\", "r">>
    [] OTHER -> <<c>>
Quote(s) == <<"\"">> \o Concat([i \in 1..Len(s) |-> EscapeChar(s[i])]) \o <<"\"">>

\* JSON.stringify(v) without indentation
RECURSIVE Stringify(_)
Stringify(v) ==
  CASE v.t \in {"undef", "null"} -> Keyword.null
    [] v.t = "bool" -> IF v.b THEN Keyword.true ELSE Keyword.false
    [] v.t = "num" -> v.n
    [] v.t = "str" -> Quote(v.s)
    [] v.t = "arr" ->
         <<"[">> \o
         Concat([i \in 1..Len(v.a) |->
                   (IF i > 1 THEN <<",">> ELSE <<>>) \o Stringify(v.a[i])]) \o
         <<"]">>
    [] v.t = "obj" ->
         <<"{">> \o
         Concat([i \in 1..Len(v.o) |->
                   (IF i > 1 THEN <<",">> ELSE <<>>) \o Quote(v.o[i].k) \o
                   <<":">> \o Stringify(v.o[i].v)]) \o
         <<"}">>

---------------------------------------------------------------------------
(* Property names and literals of the source *)

\* the property names read
Key ==
  [name |-> <<"n", "a", "m", "e">>,
   confidence |-> <<"c", "o", "n", "f", "i", "d", "e", "n", "c", "e">>,
   caption |-> <<"c", "a", "p", "t", "i", "o", "n">>,
   objects |-> <<"o", "b", "j", "e", "c", "t", "s">>,
   description |-> <<"d", "e", "s", "c", "r", "i", "p", "t", "i", "o", "n">>,
   result |-> <<"r", "e", "s", "u", "l", "t">>,
   response |-> <<"r", "e", "s", "p", "o", "n", "s", "e">>,
   output |-> <<"o", "u", "t", "p", "u", "t">>,
   output_text |-> <<"o", "u", "t", "p", "u", "t", "_", "t", "e", "x", "t">>,
   text |-> <<"t", "e", "x", "t">>,
   content |-> <<"c", "o", "n", "t", "e", "n", "t">>,
   choices |-> <<"c", "h", "o", "i", "c", "e", "s">>,
   message |-> <<"m", "e", "s", "s", "a", "g", "e">>]

\* the string literals compared with
Lit ==
  [low |-> <<"l", "o", "w">>,
   medium |-> <<"m", "e", "d", "i", "u", "m">>,
   high |-> <<"h", "i", "g", "h">>,
   dots |-> <<".", ".", ".">>,
   xxx |-> <<"x", "x", "x">>,
   object |-> <<"o", "b", "j", "e", "c", "t">>,
   json |-> <<"j", "s", "o", "n">>]

\* ["low", "medium", "high"]
Levels == {Lit.low, Lit.medium, Lit.high}

\* const banned = new Set([...])
banned ==
  {<<"m", "a'", "m", "a">>,
   <<"m", "a", "m", "a">>,
   <<"d", "e^", "t", "i">>,
   <<"d", "i", "t", "e">>,
   <<"d", "i'", "t", "e^">>,
   <<"r", "o", "d", "i", "n", "a">>,
   <<"r", "o", "d", "i", "c^", "e">>,
   <<"r", "o", "d", "i", "c", "e">>,
   <<"p", "l", "a'", "z^">>,
   <<"p", "l", "a", "z">>,
   <<"d", "o", "v", "o", "l", "e", "n", "a'">>,
   <<"d", "o", "v", "o", "l", "e", "n", "a">>,
   <<"t", "u", "r", "i", "s", "t", "a">>,
   <<"m", "o", "r^", "e">>,
   <<"m", "o", "r", "e">>,
   <<"o", "c", "e", "a'", "n">>,
   <<"o", "c", "e", "a", "n">>}

\* const junk = [...]: instruction echoes
junk ==
  <<<<"k", "o", "n", "k", "r", "e'", "t", "n", "i'", " ", "c^", "e", "s", "k", "y'", " ", "n", "a'", "z", "e", "v">>,
    <<"k", "o", "n", "k", "r", "e", "t", "n", "i", " ", "c", "e", "s", "k", "y", " ", "n", "a", "z", "e", "v">>,
    <<"c^", "e", "s", "k", "y'", " ", "n", "a'", "z", "e", "v">>,
    <<"c", "e", "s", "k", "y", " ", "n", "a", "z", "e", "v">>,
    <<"n", "a'", "z", "e", "v", " ", "o", "b", "j", "e", "k", "t", "u">>,
    <<"n", "a", "z", "e", "v", " ", "o", "b", "j", "e", "k", "t", "u">>>>

\* ["scena", "prostredi", "pozadi", "situace"] with their diacritics
tooAbstract ==
  {<<"s", "c", "e'", "n", "a">>,
   <<"p", "r", "o", "s", "t", "r^", "e", "d", "i'">>,
   <<"p", "o", "z", "a", "d", "i'">>,
   <<"s", "i", "t", "u", "a", "c", "e">>}

---------------------------------------------------------------------------
(* tryParseJsonFromText *)

BackslashQuote == <<"\\", "\"">>

\* unescape without the replacement of \" by "
unescapeKeepingQuotes(s) ==
  replaceAll(
    replaceAll(
      replaceAll(
        replaceAll(
          replaceAll(s, <<"\\", "r", "\\", "n">>, <<"\n">>),
          <<"\\", "n">>, <<"\n">>),
        <<"\\", "t">>, <<"\t">>),
      <<"\\", "'">>, <<"'">>),
    <<"\\", "\\">>, <<"\\">>)

\* the chain of replace calls, in the order of the source
unescape(s) ==
  replaceAll(
    replaceAll(
      replaceAll(
        replaceAll(
          replaceAll(
            replaceAll(s, <<"\\", "r", "\\", "n">>, <<"\n">>),
            <<"\\", "n">>, <<"\n">>),
          <<"\\", "t">>, <<"\t">>),
        <<"\\", "\"">>, <<"\"">>),
      <<"\\", "'">>, <<"'">>),
    <<"\\", "\\">>, <<"\\">>)

\* the condition of step 3: every alternative holds the two characters \"
looksEscaped(s) ==
  \/ includes(s, BackslashQuote)
  \/ includes(s, <<"{">> \o BackslashQuote)
  \/ includes(s, BackslashQuote \o Key.objects \o BackslashQuote)
  \/ includes(s, BackslashQuote \o Key.caption \o BackslashQuote)
  \/ includes(s, BackslashQuote \o Key.name \o BackslashQuote)
  \/ includes(s, BackslashQuote \o Key.confidence \o BackslashQuote)

\* the value of r when the parse succeeded, and otherwise other
parsedOr(r, other) == IF r.ok THEN r.val ELSE other

\* 4) the block from the first { to the last }: parsed as it is, then unescaped
extractBlock(s) ==
  With(<<indexOf(s, "{"), lastIndexOf(s, "}")>>,
       LAMBDA at :
         IF at[1] >= 1 /\ at[2] > at[1]
         THEN With(SubSeq(s, at[1], at[2]),
                   LAMBDA sub :
                     With(JSONparse(sub),
                          LAMBDA direct :
                            IF direct.ok THEN direct.val
                            ELSE With(JSONparse(unescape(sub)),
                                      LAMBDA repaired : parsedOr(repaired, JNull))))
         ELSE JNull)

\* 3) escaped JSON without outer quotes: unescaped, then parsed
repairEscapes(s) ==
  IF looksEscaped(s)
  THEN With(JSONparse(unescape(s)),
            LAMBDA repaired : IF repaired.ok THEN repaired.val ELSE extractBlock(s))
  ELSE extractBlock(s)

RECURSIVE tryParseJsonFromText(_)

\* 2) a text wrapped in quotes: parsed, and the string it yields recovered
unwrapQuoted(s) ==
  IF \/ startsWith(s, <<"\"">>) /\ endsWith(s, <<"\"">>)
     \/ startsWith(s, <<"'">>) /\ endsWith(s, <<"'">>)
  THEN With(JSONparse(s),
            LAMBDA inner :
              IF inner.ok /\ IsString(inner.val)
              THEN With(tryParseJsonFromText(inner.val),
                        LAMBDA r : IF Truthy(r) THEN r ELSE repairEscapes(s))
              ELSE repairEscapes(s))
  ELSE repairEscapes(s)

\* the latest version: 1) direct parse, then the steps above; each step
\* returns whatever value its JSON.parse yields
tryParseJsonFromText(t) ==
  IF ~Truthy(t) \/ ~IsString(t) THEN JNull
  ELSE With(trim(t.s),
            LAMBDA s : With(JSONparse(s),
                            LAMBDA direct :
                              IF direct.ok THEN direct.val ELSE unwrapQuoted(s)))

\* the earlier version, second step: the block from the first { to the last }
extractBlockSimple(s) ==
  With(<<indexOf(s, "{"), lastIndexOf(s, "}")>>,
       LAMBDA at :
         IF at[1] >= 1 /\ at[2] > at[1]
         THEN With(JSONparse(SubSeq(s, at[1], at[2])),
                   LAMBDA direct : parsedOr(direct, JNull))
         ELSE JNull)

\* the earlier version: direct parse, then brace extraction
tryParseJsonFromTextSimple(t) ==
  IF ~Truthy(t) \/ ~IsString(t) THEN JNull
  ELSE With(trim(t.s),
            LAMBDA s : With(JSONparse(s),
                            LAMBDA direct :
                              IF direct.ok THEN direct.val ELSE extractBlockSimple(s)))

---------------------------------------------------------------------------
(* cleanObjects *)

Entry(name, confidence) == [name |-> name, confidence |-> confidence]

\* hasName without toLowerCase on the names kept
hasNameExact(out, lower) == \E i \in 1..Len(out) : out[i].name = lower

\* out.some(x => x.name.toLowerCase() === lower)
hasName(out, lower) == \E i \in 1..Len(out) : toLowerCase(out[i].name) = lower

\* typeof o.key === "string" ? o.key.trim() : ""
trimmedField(o, key) ==
  IF IsString(Get(o, key)) THEN trim(Get(o, key).s) ELSE <<>>

\* one iteration of the loop of the latest version
cleanStep(out, o) ==
  IF ~Truthy(o) \/ ~TypeofObject(o) THEN out
  ELSE
    LET name == trimmedField(o, Key.name)
        lower == toLowerCase(name)
        lowered == toLowerCase(trimmedField(o, Key.confidence))
        confidence == IF lowered \in Levels THEN lowered ELSE Lit.low
    IN IF name = <<>> THEN out
       ELSE IF name = Lit.dots \/ lower = Lit.xxx \/ lower = Lit.object THEN out
       ELSE IF lower \in tooAbstract THEN out
       ELSE IF hasName(out, lower) THEN out
       ELSE Append(out, Entry(name, confidence))

\* cleanStepTwoPhase with the banned names looked up before the name is trimmed
cleanStepTwoPhaseUntrimmed(out, o) ==
  IF ~Truthy(o) \/ ~TypeofObject(o) THEN out
  ELSE
    LET name == trimmedField(o, Key.name)
        lower == toLowerCase(name)
        given == IF IsString(Get(o, Key.confidence))
                 THEN toLowerCase(trim(Get(o, Key.confidence).s))
                 ELSE Lit.low
        confidence == IF given \in Levels THEN given ELSE Lit.low
    IN IF name = <<>> THEN out
       ELSE IF \E x \in 1..Len(junk) : includes(lower, junk[x]) THEN out
       ELSE IF name = Lit.dots \/ lower = Lit.xxx \/ lower = Lit.object THEN out
       ELSE IF toLowerCase(Get(o, Key.name).s) \in banned THEN out
       ELSE IF hasName(out, lower) THEN out
       ELSE Append(out, Entry(name, confidence))

\* one iteration of the loop of the two-phase version
cleanStepTwoPhase(out, o) ==
  IF ~Truthy(o) \/ ~TypeofObject(o) THEN out
  ELSE
    LET name == trimmedField(o, Key.name)
        lower == toLowerCase(name)
        given == IF IsString(Get(o, Key.confidence))
                 THEN toLowerCase(trim(Get(o, Key.confidence).s))
                 ELSE Lit.low
        confidence == IF given \in Levels THEN given ELSE Lit.low
    IN IF name = <<>> THEN out
       ELSE IF \E x \in 1..Len(junk) : includes(lower, junk[x]) THEN out
       ELSE IF name = Lit.dots \/ lower = Lit.xxx \/ lower = Lit.object THEN out
       ELSE IF lower \in banned THEN out
       ELSE IF hasName(out, lower) THEN out
       ELSE Append(out, Entry(name, confidence))

\* one iteration of the loop of the first version
cleanStepStrict(out, o) ==
  IF ~Truthy(o) \/ ~TypeofObject(o) THEN out
  ELSE
    LET name == trimmedField(o, Key.name)
        lower == toLowerCase(name)
        confidence == trimmedField(o, Key.confidence)
    IN IF name = <<>> THEN out
       ELSE IF name = Lit.dots \/ lower = Lit.xxx \/ lower = Lit.object THEN out
       ELSE IF confidence \notin Levels THEN out
       ELSE IF hasName(out, lower) THEN out
       ELSE Append(out, Entry(name, confidence))

RECURSIVE cleanFrom(_, _, _), cleanFromTwoPhase(_, _, _), cleanFromStrict(_, _, _)
cleanFrom(list, i, out) ==
  IF i > Len(list) THEN out
  ELSE With(cleanStep(out, list[i]), LAMBDA next : cleanFrom(list, i + 1, next))
cleanFromTwoPhase(list, i, out) ==
  IF i > Len(list) THEN out
  ELSE With(cleanStepTwoPhase(out, list[i]),
            LAMBDA next : cleanFromTwoPhase(list, i + 1, next))
cleanFromStrict(list, i, out) ==
  IF i > Len(list) THEN out
  ELSE With(cleanStepStrict(out, list[i]),
            LAMBDA next : cleanFromStrict(list, i + 1, next))

\* for (const o of objects) ...; return out: list holds the array's elements
cleanObjects(list) == With(list, LAMBDA l : cleanFrom(l, 1, <<>>))
cleanObjectsTwoPhase(list) == With(list, LAMBDA l : cleanFromTwoPhase(l, 1, <<>>))
cleanObjectsStrict(list) == With(list, LAMBDA l : cleanFromStrict(l, 1, <<>>))

---------------------------------------------------------------------------
(* extractObjectsFromText *)

Bullets == {"<bullet>", "<middot>"}
Dashes == {"-", "<endash>", "<emdash>"}
Separators == {",", ";", ":", "\n"}

\* uniq.slice(0, 40)
MaxFallback == 40
\* if (t.length > 40) continue
MaxFragmentLen == 40

\* .replace(/\s+/g, " "): the first character of a run of white space
\* becomes a space, the rest of the run goes
collapseSpace(s) ==
  SelectSeq([i \in 1..Len(s) |->
               IF s[i] \notin WhiteSpace THEN s[i]
               ELSE IF i > 1 /\ s[i - 1] \in WhiteSpace THEN ""
               ELSE " "],
            NotDropped)

\* .replace(/[<bullet><middot>]/g, ",")
bulletsToCommas(s) == [i \in 1..Len(s) |-> IF s[i] \in Bullets THEN "," ELSE s[i]]

\* .split(/[,;:\n]/): the pieces between the separators, from position i on
RECURSIVE split(_, _)
split(s, i) ==
  IF \A j \in i..Len(s) : s[j] \notin Separators THEN <<SubSeq(s, i, Len(s))>>
  ELSE With(Min({j \in i..Len(s) : s[j] \in Separators}),
            LAMBDA m : <<SubSeq(s, i, m - 1)>> \o split(s, m + 1))

\* .replace(/^[-<endash><emdash>]\s*/, "")
stripDash(s) ==
  IF s # <<>> /\ s[1] \in Dashes THEN SubSeq(s, trimStart(s, 2), Len(s)) ELSE s

\* .replace(/\.$/, "")
stripDot(s) == IF s # <<>> /\ s[Len(s)] = "." THEN SubSeq(s, 1, Len(s) - 1) ELSE s

\* the fragment as the second loop sees it
fragment(s) == trim(stripDot(stripDash(s)))

keepFragment(f) ==
  /\ f # <<>>
  /\ Len(f) <= MaxFragmentLen
  /\ ~includes(toLowerCase(f), Lit.json)
  /\ ~(f = Lit.dots \/ toLowerCase(f) = Lit.object)

\* the de-duplication loop
RECURSIVE uniqFrom(_, _, _)
uniqFrom(list, i, uniq) ==
  IF i > Len(list) THEN uniq
  ELSE With(IF \E x \in 1..Len(uniq) : toLowerCase(uniq[x]) = toLowerCase(list[i])
            THEN uniq ELSE Append(uniq, list[i]),
            LAMBDA next : uniqFrom(list, i + 1, next))

\* text.replace(...).replace(...).split(...).map(s => s.trim()).filter(Boolean)
rawFragments(s) ==
  With(With(With(s, LAMBDA v : bulletsToCommas(collapseSpace(v))),
            LAMBDA v : split(v, 1)),
       LAMBDA pieces : SelectSeq([i \in 1..Len(pieces) |-> trim(pieces[i])], LAMBDA f : f # <<>>))

\* the first loop: the fragments kept
cleanedFragments(raw) ==
  SelectSeq([i \in 1..Len(raw) |-> fragment(raw[i])], keepFragment)

\* capped without the slice
uncapped(uniq) == [i \in 1..Len(uniq) |-> Entry(uniq[i], Lit.low)]

\* uniq.slice(0, 40).map(name => ({ name, confidence: "low" }))
capped(uniq) ==
  [i \in 1..(IF Len(uniq) < MaxFallback THEN Len(uniq) ELSE MaxFallback) |->
     Entry(uniq[i], Lit.low)]

extractObjectsFromText(t) ==
  IF ~Truthy(t) \/ ~IsString(t) THEN <<>>
  ELSE With(With(With(rawFragments(t.s), LAMBDA raw : cleanedFragments(raw)),
                 LAMBDA list : uniqFrom(list, 1, <<>>)),
            LAMBDA uniq : capped(uniq))

\* uniq.slice(0, 15) of the earlier version, the same function otherwise
MaxFallbackEarly == 15
cappedEarly(uniq) ==
  [i \in 1..(IF Len(uniq) < MaxFallbackEarly THEN Len(uniq) ELSE MaxFallbackEarly) |->
     Entry(uniq[i], Lit.low)]

extractObjectsFromTextEarly(t) ==
  IF ~Truthy(t) \/ ~IsString(t) THEN <<>>
  ELSE With(With(With(rawFragments(t.s), LAMBDA raw : cleanedFragments(raw)),
                 LAMBDA list : uniqFrom(list, 1, <<>>)),
            LAMBDA uniq : cappedEarly(uniq))

---------------------------------------------------------------------------
(* onRequestPost: the three versions that parse the model's text *)

Reply(status, ok, fields, caption, objs, error) ==
  [status |-> status, ok |-> ok, fields |-> fields, caption |-> caption,
   objects |-> objs, error |-> error]
NoReply == Reply(0, FALSE, {}, <<>>, <<>>, "")

\* catch (e) { return json({ ok: false, model, error: String(e), debug }, 500) }
\* the catch clause without its error field
caughtWithoutError == Reply(500, FALSE, {"ok", "model", "debug"}, <<>>, <<>>, "")

caught == Reply(500, FALSE, {"ok", "model", "error", "debug"}, <<>>, <<>>, "String(e)")

\* descriptionOf with response read before result
descriptionOfResponseFirst(a) ==
  Coalesce(Get(a, Key.description),
    Coalesce(Get(a, Key.response),
      Coalesce(Get(a, Key.result), IF IsString(a) THEN a ELSE JStr(<<>>))))

\* ai?.description ?? ai?.result ?? ai?.response ?? (typeof ai === "string" ? ai : "")
descriptionOf(a) ==
  Coalesce(Get(a, Key.description),
    Coalesce(Get(a, Key.result),
      Coalesce(Get(a, Key.response), IF IsString(a) THEN a ELSE JStr(<<>>))))

\* typeof parsed.caption === "string" ? parsed.caption.trim() : ""
captionOf(p) == IF IsString(Get(p, Key.caption)) THEN trim(Get(p, Key.caption).s) ELSE <<>>

\* parsed && Array.isArray(parsed.objects)
hasObjects(p) == Truthy(p) /\ IsArray(Get(p, Key.objects))

\* the latest version, after env.AI.run
respondWith(d, p) ==
  IF hasObjects(p)
  THEN Reply(200, TRUE,
             {"ok", "model", "imageFingerprint", "caption", "objects", "raw"},
             captionOf(p), cleanObjects(Get(p, Key.objects).a), "")
  ELSE Reply(200, TRUE,
             {"ok", "model", "imageFingerprint", "caption", "objects", "note",
              "description", "raw"},
             <<>>, extractObjectsFromText(d), "")
\* respond, except that an objects array of the envelope is used as it is
respondFromEnvelope(a) ==
  IF IsArray(Get(a, Key.objects)) THEN respondWith(JStr(<<>>), a)
  ELSE With(descriptionOf(a),
            LAMBDA d : With(tryParseJsonFromText(d), LAMBDA p : respondWith(d, p)))

respond(a) ==
  With(descriptionOf(a),
       LAMBDA d : With(tryParseJsonFromText(d), LAMBDA p : respondWith(d, p)))

\* the version without text fallback, after env.AI.run
respondNoFallbackWith(p) ==
  IF hasObjects(p)
  THEN Reply(200, TRUE,
             {"ok", "model", "imageFingerprint", "bytesLength", "caption",
              "objects", "raw"},
             captionOf(p), cleanObjectsStrict(Get(p, Key.objects).a), "")
  ELSE Reply(200, TRUE,
             {"ok", "model", "imageFingerprint", "bytesLength", "caption",
              "objects", "note", "description", "raw"},
             <<>>, <<>>, "")
respondNoFallback(a) ==
  With(tryParseJsonFromTextSimple(descriptionOf(a)),
       LAMBDA p : respondNoFallbackWith(p))

\* (typeof p === "string" ? p : p?.description ?? p?.result ?? "")?.trim() || "":
\* calling trim on a value that is no string throws a TypeError
phaseText(p) ==
  With(IF IsString(p) THEN p
       ELSE Coalesce(Get(p, Key.description), Coalesce(Get(p, Key.result), JStr(<<>>))),
       LAMBDA v : IF IsString(v) THEN [threw |-> FALSE, s |-> trim(v.s)]
                  ELSE [threw |-> TRUE, s |-> <<>>])

\* the two-phase version, after the second env.AI.run
respondTwoPhaseWith(p) ==
  IF ~hasObjects(p)
  THEN Reply(500, FALSE, {"ok", "model", "imageFingerprint", "error", "raw"},
             <<>>, <<>>, "Phase 2 did not return valid JSON.")
  ELSE Reply(200, TRUE,
             {"ok", "model", "imageFingerprint", "caption", "objects", "raw"},
             captionOf(p), cleanObjectsTwoPhase(Get(p, Key.objects).a), "")
respondTwoPhase(a) ==
  With(phaseText(a),
       LAMBDA t : IF t.threw THEN caught
                  ELSE With(tryParseJsonFromTextSimple(JStr(t.s)),
                            LAMBDA p : respondTwoPhaseWith(p)))

---------------------------------------------------------------------------
(* The inputs: payloads, the texts a generator makes of them, envelopes *)

\* how many layers of string quoting a text may carry
MaxQuoting == 2
\* how many fields an envelope object may hold
MaxFields == 2
\* how many entries a raw list under test may hold
MaxEntries == 3

RawEntry(n, c) == JObj(<<Member(Key.name, JStr(n)), Member(Key.confidence, JStr(c))>>)
Payload(c, entries) ==
  JObj(<<Member(Key.caption, JStr(c)), Member(Key.objects, JArr(entries))>>)

\* names, confidences and texts a generator may emit
Sample ==
  [crane |-> <<"C", "r", "a", "n", "e">>,
   craneLower |-> <<"c", "r", "a", "n", "e">>,
   helmet |-> <<" ", "h", "e", "l", "m", "e", "t", " ">>,
   beam |-> <<"b", "e", "a", "m">>,
   beach |-> <<" ", "P", "l", "a'", "z^">>,
   xxx |-> <<"X", "X", "X">>,
   echo |-> <<"N", "a'", "z", "e", "v", " ", "o", "b", "j", "e", "k", "t",
      "u", " ", "1">>,
   scene |-> <<"S", "c", "e'", "n", "a">>,
   blank |-> <<" ", " ">>,
   maybe |-> <<"m", "a", "y", "b", "e">>,
   highSpaced |-> <<" ", "H", "I", "G", "H", " ">>,
   proseBefore |-> <<"H", "e", "r", "e", " ", "i", "s", " ", "t", "h", "e",
      " ", "r", "e", "s", "u", "l", "t", ":", " ">>,
   proseAfter |-> <<" ", "T", "h", "a", "n", "k", "s", "!">>,
   list |-> <<"H", "e", "l", "m", "e", "t", ",", " ", "c", "r", "a", "n",
      "e", ";", " ", "h", "e", "l", "m", "e", "t">>,
   bullets |-> <<"I", "N", "V", "E", "N", "T", "U", "R", "A", ":", "\n", "-",
      " ", "c", "r", "a", "n", "e", ".", "\n", "-", " ", "j", "s", "o", "n",
      " ", "x">>,
   braces |-> <<"}", "{">>,
   notJson |-> <<"{", "a", "}">>]

\* the raw entries a generator may emit, good and bad
RawEntries ==
  {RawEntry(Sample.crane, Lit.high),
   RawEntry(Sample.craneLower, Lit.medium),
   RawEntry(Sample.helmet, Sample.highSpaced),
   RawEntry(Sample.beam, Sample.maybe),
   JObj(<<Member(Key.name, JStr(Sample.beam))>>),
   RawEntry(Sample.beach, Lit.high),
   RawEntry(Lit.dots, Lit.high),
   RawEntry(Sample.xxx, Lit.low),
   RawEntry(Sample.echo, Lit.high),
   RawEntry(Sample.scene, Lit.low),
   RawEntry(Sample.blank, Lit.high),
   JNull}

RECURSIVE ListsUpTo(_, _)
ListsUpTo(S, n) ==
  IF n = 0 THEN {<<>>}
  ELSE LET shorter == ListsUpTo(S, n - 1)
       IN shorter \cup {Append(l, x) : l \in {m \in shorter : Len(m) = n - 1}, x \in S}

RawLists == ListsUpTo(RawEntries, MaxEntries)

\* payloads with an objects array
WellFormed ==
  {Payload(<<"c">>, <<RawEntry(<<"a">>, Lit.high)>>),
   JObj(<<Member(Key.objects, JArr(<<RawEntry(<<"h", "e", "l", "m", "e", "t">>, Lit.low)>>))>>),
   Payload(<<" ", "a", "\"", "b", "\\", "\n">>,
           <<RawEntry(Sample.beam, Sample.maybe), RawEntry(Sample.beach, Lit.high),
             RawEntry(Sample.scene, Lit.high)>>),
   JObj(<<Member(Key.objects, JArr(<<>>))>>)}

\* values that parse but are no payload
NotPayload ==
  {JObj(<<Member(Key.caption, JStr(<<"c">>))>>),
   JObj(<<Member(Key.objects, JStr(<<"x">>))>>),
   JObj(<<>>),
   JArr(<<JNum(<<"1">>)>>),
   JNum(<<"4", "2">>),
   JNum(<<"0">>),
   JStr(<<"a", "b", "c">>),
   JBool(TRUE),
   JNull}

\* the JSON string literal whose value is t, n times over
RECURSIVE QuoteWrap(_, _)
QuoteWrap(t, n) == IF n = 0 THEN t ELSE QuoteWrap(Quote(t), n - 1)

\* every double quote backslash-escaped, no outer quotes
EscapeQuotes(t) == replaceAll(t, <<"\"">>, BackslashQuote)

\* the ways a generator may present the text t
Presentations(t) ==
  {t,
   <<"\n", " ">> \o t \o <<" ", "\n">>,
   EscapeQuotes(t),
   <<"'">> \o t \o <<"'">>,
   Sample.proseBefore \o t \o Sample.proseAfter,
   Sample.proseBefore \o EscapeQuotes(t) \o Sample.proseAfter}
  \cup {QuoteWrap(t, n) : n \in 1..MaxQuoting}

Texts ==
  UNION {Presentations(Stringify(v)) : v \in WellFormed \cup NotPayload}
  \cup {<<>>, <<" ", "\n">>, Sample.list, Sample.bullets, Sample.braces,
        Sample.notJson, <<"{">>, <<"\"">>, <<"'">>}

\* the arguments tryParseJsonFromText is called with
TextArguments ==
  {JStr(t) : t \in Texts} \cup {JNull, JUndef, JNum(<<"5">>), JObj(<<>>)}

\* the fields of an envelope object and the values they may hold
EnvelopeKeys ==
  <<Key.description, Key.result, Key.response, Key.output, Key.output_text, Key.text, Key.content>>
FieldValues ==
  {JStr(<<>>), JNull, JNum(<<"5">>), JStr(Sample.list),
   JStr(Stringify(Payload(<<"c">>, <<RawEntry(<<"a">>, Lit.high)>>)))}

EnvelopeOf(f) ==
  LET idx == SelectSeq([i \in 1..Len(EnvelopeKeys) |-> i],
                       LAMBDA i : i \in DOMAIN f)
  IN JObj([j \in 1..Len(idx) |-> Member(EnvelopeKeys[idx[j]], f[idx[j]])])

FieldEnvelopes ==
  {EnvelopeOf(f) :
     f \in UNION {[K -> FieldValues] :
                    K \in {L \in SUBSET (1..Len(EnvelopeKeys)) :
                             Cardinality(L) <= MaxFields}}}

\* an envelope that already holds an objects array
DirectEnvelopes ==
  {Payload(<<"c">>, <<RawEntry(Sample.crane, Lit.high)>>),
   JObj(<<Member(Key.objects, JArr(<<RawEntry(Sample.crane, Lit.high)>>))>>),
   JObj(<<Member(Key.objects, JArr(<<RawEntry(Sample.crane, Lit.high)>>)),
          Member(Key.description, JStr(Sample.list))>>),
   JObj(<<Member(Key.objects, JArr(<<RawEntry(Sample.crane, Lit.high)>>)),
          Member(Key.response, JStr(Stringify(Payload(<<"c">>, <<RawEntry(<<"a">>, Lit.high)>>))))>>)}

\* a chat-style envelope: choices[0].message.content
ChatEnvelopes ==
  {JObj(<<Member(Key.choices,
                 JArr(<<JObj(<<Member(Key.message, JObj(<<Member(Key.content, JStr(t))>>))>>)>>))>>) :
     t \in {Sample.list, Stringify(Payload(<<"c">>, <<RawEntry(<<"a">>, Lit.high)>>))}}

\* what env.AI.run may return
Envelopes ==
  TextArguments \cup FieldEnvelopes \cup DirectEnvelopes \cup ChatEnvelopes

\* what the first call of the two-phase version may return
Phase1Outputs ==
  {JStr(Sample.bullets), JStr(<<" ">>), JNull, JNum(<<"5">>),
   JObj(<<Member(Key.description, JStr(Sample.bullets))>>),
   JObj(<<Member(Key.result, JStr(Sample.list))>>),
   JObj(<<Member(Key.description, JStr(<<>>)), Member(Key.result, JStr(Sample.list))>>),
   JObj(<<Member(Key.description, JNum(<<"5">>))>>),
   JObj(<<Member(Key.response, JStr(Sample.list))>>)}

Handlers == {"latest", "noFallback", "twoPhase"}
Requests == [multipart : BOOLEAN, image : BOOLEAN, binding : BOOLEAN]

---------------------------------------------------------------------------
(* The request handler, one action per step between awaits and returns *)

Init ==
  /\ handler \in Handlers
  /\ req \in Requests
  /\ pc = "start"
  /\ ai = JUndef
  /\ inventoryText = <<>>
  /\ description = JUndef
  /\ parsed = JUndef
  /\ resp = NoReply
  /\ calls = 0
  /\ text = JUndef
  /\ objects = <<>>
  /\ cleaned = <<>>

underTest == <<text, objects, cleaned>>

\* return json(...): the handler ends
Return(r) == resp' = r /\ pc' = "done"

\* if (!ct.includes("multipart/form-data")) return json({ ok: false, ... }, 400)
CheckContentType ==
  /\ pc = "start"
  /\ IF req.multipart
     THEN pc' = "form" /\ UNCHANGED resp
     ELSE Return(Reply(400, FALSE, {"ok", "error"}, <<>>, <<>>,
                       "Send multipart/form-data with field 'file'."))
  /\ UNCHANGED <<handler, req, ai, inventoryText, description, parsed, calls, underTest>>

\* await request.formData(), which may throw
DecodeForm ==
  /\ pc = "form"
  /\ \E threw \in BOOLEAN :
       IF threw THEN Return(caught) ELSE pc' = "image" /\ UNCHANGED resp
  /\ UNCHANGED <<handler, req, ai, inventoryText, description, parsed, calls, underTest>>

\* if (!isImage) return json({ ok: false, ... }, 400)
CheckImage ==
  /\ pc = "image"
  /\ IF req.image
     THEN pc' = "binding" /\ UNCHANGED resp
     ELSE Return(Reply(400, FALSE, {"ok", "error"}, <<>>, <<>>,
                       "Missing or invalid image file (field 'file')."))
  /\ UNCHANGED <<handler, req, ai, inventoryText, description, parsed, calls, underTest>>

\* CheckBinding without the test of env.AI
CheckBindingSkipped ==
  /\ pc = "binding"
  /\ pc' = "bytes"
  /\ UNCHANGED <<handler, req, ai, inventoryText, description, parsed, resp, calls, underTest>>

\* if (!env.AI || typeof env.AI.run !== "function") return json({ ok: false, ... }, 500)
CheckBinding ==
  /\ pc = "binding"
  /\ IF req.binding
     THEN pc' = "bytes" /\ UNCHANGED resp
     ELSE Return(Reply(500, FALSE, {"ok", "error"}, <<>>, <<>>,
                       "Workers AI binding 'AI' is missing."))
  /\ UNCHANGED <<handler, req, ai, inventoryText, description, parsed, calls, underTest>>

\* await file.arrayBuffer() and await sha256Hex(bytes), which may throw
ReadBytes ==
  /\ pc = "bytes"
  /\ \E threw \in BOOLEAN :
       IF threw THEN Return(caught) ELSE pc' = "run" /\ UNCHANGED resp
  /\ UNCHANGED <<handler, req, ai, inventoryText, description, parsed, calls, underTest>>

\* await env.AI.run(MODEL, { image, prompt, max_tokens }): returns or throws
RunModel ==
  /\ pc = "run"
  /\ handler \in {"latest", "noFallback"}
  /\ calls' = calls + 1
  /\ \/ \E out \in Envelopes : ai' = out /\ pc' = "respond" /\ UNCHANGED resp
     \/ Return(caught) /\ UNCHANGED ai
  /\ UNCHANGED <<handler, req, inventoryText, description, parsed, underTest>>

\* the latest version, from the description to the response
Respond ==
  /\ pc = "respond"
  /\ handler = "latest"
  /\ description' = descriptionOf(ai)
  /\ parsed' = tryParseJsonFromText(descriptionOf(ai))
  /\ Return(respond(ai))
  /\ UNCHANGED <<handler, req, ai, inventoryText, calls, underTest>>

\* the version without text fallback, from the description to the response
RespondNoFallback ==
  /\ pc = "respond"
  /\ handler = "noFallback"
  /\ description' = descriptionOf(ai)
  /\ parsed' = tryParseJsonFromTextSimple(descriptionOf(ai))
  /\ Return(respondNoFallback(ai))
  /\ UNCHANGED <<handler, req, ai, inventoryText, calls, underTest>>

\* const phase1 = await runVision(PROMPT_1)
RunPhase1 ==
  /\ pc = "run"
  /\ handler = "twoPhase"
  /\ calls' = calls + 1
  /\ \/ \E out \in Phase1Outputs : ai' = out /\ pc' = "inventory" /\ UNCHANGED resp
     \/ Return(caught) /\ UNCHANGED ai
  /\ UNCHANGED <<handler, req, inventoryText, description, parsed, underTest>>

\* const inventoryText = ...; if (!inventoryText) return json({ ok: false, ... }, 500)
CheckInventory ==
  /\ pc = "inventory"
  /\ LET t == phaseText(ai)
     IN IF t.threw THEN Return(caught) /\ UNCHANGED inventoryText
        ELSE IF t.s = <<>>
        THEN /\ Return(Reply(500, FALSE,
                             {"ok", "model", "error", "imageFingerprint", "raw1"},
                             <<>>, <<>>, "Phase 1 returned empty text."))
             /\ UNCHANGED inventoryText
        ELSE inventoryText' = t.s /\ pc' = "phase2" /\ UNCHANGED resp
  /\ UNCHANGED <<handler, req, ai, description, parsed, calls, underTest>>

\* const phase2 = await runVision(PROMPT_2)
RunPhase2 ==
  /\ pc = "phase2"
  /\ calls' = calls + 1
  /\ \/ \E out \in Envelopes : ai' = out /\ pc' = "respond" /\ UNCHANGED resp
     \/ Return(caught) /\ UNCHANGED ai
  /\ UNCHANGED <<handler, req, inventoryText, description, parsed, underTest>>

\* the two-phase version, from phase2Text to the response
RespondTwoPhase ==
  /\ pc = "respond"
  /\ handler = "twoPhase"
  /\ description' = (IF phaseText(ai).threw THEN JUndef ELSE JStr(phaseText(ai).s))
  /\ parsed' = (IF phaseText(ai).threw THEN JUndef
                ELSE tryParseJsonFromTextSimple(JStr(phaseText(ai).s)))
  /\ Return(respondTwoPhase(ai))
  /\ UNCHANGED <<handler, req, ai, inventoryText, calls, underTest>>

Next ==
  \/ CheckContentType
  \/ DecodeForm
  \/ CheckImage
  \/ CheckBinding
  \/ ReadBytes
  \/ RunModel
  \/ Respond
  \/ RespondNoFallback
  \/ RunPhase1
  \/ CheckInventory
  \/ RunPhase2
  \/ RespondTwoPhase

Spec == Init /\ [][Next]_vars

\* the runtime runs the async function on: every await resolves or rejects,
\* and the statements between two awaits are executed
SpecFair == Spec /\ WF_vars(Next)

---------------------------------------------------------------------------
(* tryParseJsonFromText on its own: every text argument, both versions *)

idle ==
  /\ handler = "none"
  /\ req = [multipart |-> FALSE, image |-> FALSE, binding |-> FALSE]
  /\ ai = JUndef
  /\ inventoryText = <<>>
  /\ description = JUndef
  /\ resp = NoReply
  /\ calls = 0

handlerVars == <<req, ai, inventoryText, description, resp, calls>>

InitParse ==
  /\ idle
  /\ pc = "parse"
  /\ text \in TextArguments
  /\ parsed = JUndef
  /\ objects = <<>>
  /\ cleaned = <<>>

Recover ==
  /\ pc = "parse"
  /\ parsed' = tryParseJsonFromText(text)
  /\ handler' = "latest"
  /\ pc' = "parsed"
  /\ UNCHANGED <<handlerVars, text, objects, cleaned>>

RecoverSimple ==
  /\ pc = "parse"
  /\ parsed' = tryParseJsonFromTextSimple(text)
  /\ handler' = "noFallback"
  /\ pc' = "parsed"
  /\ UNCHANGED <<handlerVars, text, objects, cleaned>>

NextParse == Recover \/ RecoverSimple

SpecParse == InitParse /\ [][NextParse]_vars

---------------------------------------------------------------------------
(* cleanObjects on its own: every raw list, the three versions *)

InitClean ==
  /\ idle
  /\ pc = "clean"
  /\ objects \in RawLists
  /\ cleaned = <<>>
  /\ text = JUndef
  /\ parsed = JUndef

Clean ==
  /\ pc = "clean"
  /\ cleaned' = cleanObjects(objects)
  /\ handler' = "latest"
  /\ pc' = "cleaned"
  /\ UNCHANGED <<handlerVars, text, parsed, objects>>

CleanTwoPhase ==
  /\ pc = "clean"
  /\ cleaned' = cleanObjectsTwoPhase(objects)
  /\ handler' = "twoPhase"
  /\ pc' = "cleaned"
  /\ UNCHANGED <<handlerVars, text, parsed, objects>>

CleanStrict ==
  /\ pc = "clean"
  /\ cleaned' = cleanObjectsStrict(objects)
  /\ handler' = "noFallback"
  /\ pc' = "cleaned"
  /\ UNCHANGED <<handlerVars, text, parsed, objects>>

NextClean == Clean \/ CleanTwoPhase \/ CleanStrict

SpecClean == InitClean /\ [][NextClean]_vars

---------------------------------------------------------------------------
(* cleanObjects applied to its own result *)

\* the array cleanObjects returned, as the values a second call is given
AsRaw(out) == [i \in 1..Len(out) |-> RawEntry(out[i].name, out[i].confidence)]

\* the same version of cleanObjects, called with the array it returned
Reclean ==
  /\ pc = "cleaned"
  /\ objects' = AsRaw(cleaned)
  /\ cleaned' = (CASE handler = "latest" -> cleanObjects(AsRaw(cleaned))
                  [] handler = "twoPhase" -> cleanObjectsTwoPhase(AsRaw(cleaned))
                  [] handler = "noFallback" -> cleanObjectsStrict(AsRaw(cleaned)))
  /\ pc' = "recleaned"
  /\ UNCHANGED <<handler, handlerVars, text, parsed>>

NextReclean == Clean \/ CleanTwoPhase \/ CleanStrict \/ Reclean

SpecReclean == InitClean /\ [][NextReclean]_vars

---------------------------------------------------------------------------
(* extractObjectsFromText on its own: lists of fragments, both caps *)

\* how many fragments a list text may hold
MaxFragments == 45

\* the i-th fragment of a list text: two letters, different for each i
Letters == <<"b", "c", "d", "f", "g", "h", "k", "m", "p", "q">>
Fragment(i) == <<Letters[(i \div 10) + 1], Letters[(i % 10) + 1]>>

\* what a generator may put between the fragments; a line break with a dash
\* does not separate, because white space is collapsed before the split
ListSeparators ==
  {<<",">>, <<";", " ">>, <<".", ":", " ">>, <<" ", "<bullet>", " ">>, <<"\n", "-", " ">>}

\* the fragments 1..n with sep between them
ListText(n, sep) ==
  Concat([i \in 1..n |-> IF i = 1 THEN Fragment(i) ELSE sep \o Fragment(i)])

\* a fragment of n characters
LongFragment(n) == [i \in 1..n |-> "a"]

FallbackTexts ==
  {JStr(ListText(n, sep)) : n \in 1..MaxFragments, sep \in ListSeparators}
  \cup {JStr(LongFragment(n) \o <<",">> \o Fragment(1)) :
          n \in {MaxFragmentLen, MaxFragmentLen + 1}}
  \cup TextArguments

InitExtract ==
  /\ idle
  /\ pc = "extract"
  /\ text \in FallbackTexts
  /\ parsed = JUndef
  /\ objects = <<>>
  /\ cleaned = <<>>

\* the latest version, slice(0, 40)
Extract ==
  /\ pc = "extract"
  /\ cleaned' = extractObjectsFromText(text)
  /\ handler' = "latest"
  /\ pc' = "extracted"
  /\ UNCHANGED <<handlerVars, text, parsed, objects>>

\* the earlier version, slice(0, 15)
ExtractEarly ==
  /\ pc = "extract"
  /\ cleaned' = extractObjectsFromTextEarly(text)
  /\ handler' = "early"
  /\ pc' = "extracted"
  /\ UNCHANGED <<handlerVars, text, parsed, objects>>

NextExtract == Extract \/ ExtractEarly

SpecExtract == InitExtract /\ [][NextExtract]_vars

---------------------------------------------------------------------------
(* Claims *)

\* the handler returned from one of its respond steps: ai holds the envelope
\* and description the text taken from it
Responded == pc = "done" /\ description # JUndef
\* the handler returned after looking at the model output ai without raising
Answered == pc = "done" /\ ai # JUndef /\ resp.error # "String(e)"
RespondedBy(h) == Responded /\ handler = h

\* C1: tryParseJsonFromText returns null or an object whose objects field is
\* an array; a parse that yields anything else counts as a failed strategy
C1_RecoverStructurallyValid ==
  pc = "parsed" =>
    \/ parsed = JNull
    \/ parsed.t = "obj" /\ IsArray(Get(parsed, Key.objects))

\* C2: a well-formed payload text wrapped once in string quoting gets the
\* response of the text itself: ok, the same caption, the same objects
C2_QuotedWrapRecoversIdentically ==
  \A v \in WellFormed :
    (RespondedBy("latest") /\ ai = JStr(Quote(Stringify(v))))
      => /\ resp.ok
         /\ resp.caption = captionOf(v)
         /\ resp.objects = cleanObjects(Get(v, Key.objects).a)

\* an empty string, or an envelope none of whose fields holds a non-empty string
EmptyInput(a) ==
  \/ IsString(a) /\ a.s = <<>>
  \/ /\ a.t = "obj"
     /\ \A i \in 1..Len(a.o) : a.o[i].v.t \in {"null", "str"}
     /\ \A i \in 1..Len(a.o) : IsString(a.o[i].v) => a.o[i].v.s = <<>>

\* C3: an empty string or an envelope without any non-empty string field is
\* answered ok:false with an error, without objects and without caption
C3_EmptyInputNotOk ==
  (Answered /\ EmptyInput(ai))
    => /\ ~resp.ok
       /\ "error" \in resp.fields
       /\ "objects" \notin resp.fields
       /\ "caption" \notin resp.fields

\* C4: a non-empty text on which every recovery strategy fails is answered
\* ok:true with caption "" and the objects of the plain-text fallback
C4_UnrecoverableTextFallsBack ==
  (/\ Responded
   /\ IsString(description)
   /\ trim(description.s) # <<>>
   /\ ~hasObjects(tryParseJsonFromText(description)))
    => /\ resp.ok
       /\ resp.caption = <<>>
       /\ resp.objects = extractObjectsFromText(description)

\* the order of the fields as the specification gives it
ClaimedOrder == <<Key.response, Key.result, Key.output, Key.output_text, Key.text, Key.content>>
NonEmptyString(v) == IsString(v) /\ v.s # <<>>
\* choices[0].message.content
ChatContent(a) ==
  IF IsArray(Get(a, Key.choices)) /\ Get(a, Key.choices).a # <<>>
  THEN Get(Get(Get(a, Key.choices).a[1], Key.message), Key.content)
  ELSE JUndef
ClaimedBlob(a) ==
  IF \E i \in 1..Len(ClaimedOrder) : NonEmptyString(Get(a, ClaimedOrder[i]))
  THEN Get(a, ClaimedOrder[Min({i \in 1..Len(ClaimedOrder) :
                                   NonEmptyString(Get(a, ClaimedOrder[i]))})])
  ELSE IF NonEmptyString(ChatContent(a)) THEN ChatContent(a)
  ELSE JStr(<<>>)

ScannedOrder == <<Key.description, Key.result, Key.response>>
Present(v) == v.t \notin {"undef", "null"}
\* the first n fields of ScannedOrder: the first that is present, else the
\* envelope itself when it is a string, else ""
FirstPresent(a, n) ==
  IF \E i \in 1..n : Present(Get(a, ScannedOrder[i]))
  THEN Get(a, ScannedOrder[Min({i \in 1..n : Present(Get(a, ScannedOrder[i]))})])
  ELSE IF IsString(a) THEN a
  ELSE JStr(<<>>)

WithoutPayloadFields(a) ==
  JObj(SelectSeq(a.o, LAMBDA m : m.k \notin {Key.objects, Key.caption}))
NoTextField(a) == \A i \in 1..Len(ScannedOrder) : ~Present(Get(a, ScannedOrder[i]))

Cleaner(list) ==
  CASE handler = "latest" -> cleanObjects(list)
    [] handler = "twoPhase" -> cleanObjectsTwoPhase(list)
    [] handler = "noFallback" -> cleanObjectsStrict(list)

\* the entry with a confidence that is valid
WithValidConfidence(o) ==
  IF o.t = "obj" THEN JObj(Put(o.o, Key.confidence, JStr(Lit.high))) ELSE o
\* the confidence the specification gives an entry
NormalConfidence(o) ==
  IF IsString(Get(o, Key.confidence)) /\ toLowerCase(trim(Get(o, Key.confidence).s)) \in Levels
  THEN toLowerCase(trim(Get(o, Key.confidence).s))
  ELSE Lit.low
LowerName(o) == toLowerCase(trimmedField(o, Key.name))

\* C7: no entry is rejected for its confidence alone (the names kept are those
\* kept when every confidence is valid), and each entry kept carries the
\* trimmed, lowercased confidence of its source if that is low, medium or
\* high, and low otherwise
C7_ConfidenceDefault ==
  pc = "cleaned" =>
    /\ [k \in 1..Len(cleaned) |-> cleaned[k].name]
         = [k \in 1..Len(Cleaner([i \in 1..Len(objects) |-> WithValidConfidence(objects[i])])) |->
              Cleaner([i \in 1..Len(objects) |-> WithValidConfidence(objects[i])])[k].name]
    /\ \A k \in 1..Len(cleaned) :
         /\ cleaned[k].confidence \in Levels
         /\ \E i \in 1..Len(objects) :
              /\ trimmedField(objects[i], Key.name) = cleaned[k].name
              /\ \A j \in 1..(i - 1) : LowerName(objects[j]) # LowerName(objects[i])
              /\ cleaned[k].confidence = NormalConfidence(objects[i])

\* each entry as the version that ran cleans it on its own: <<>> if it is
\* rejected, else the one entry it becomes
Alone(list) == [i \in 1..Len(list) |-> Cleaner(<<list[i]>>)]
\* the places of the entries kept: accepted, and no accepted entry before
\* them has the same name case-insensitively
KeptPlaces(alone) ==
  {i \in 1..Len(alone) :
     /\ alone[i] # <<>>
     /\ \A j \in 1..(i - 1) :
          alone[j] # <<>>
            => toLowerCase(alone[j][1].name) # toLowerCase(alone[i][1].name)}
\* the k-th smallest element of a set of numbers
Nth(S, k) == CHOOSE i \in S : Cardinality({j \in S : j < i}) = k - 1

\* C8: no two entries of the output have names equal case-insensitively; the
\* output is, in input order, the first accepted entry of each name with its
\* own spelling and confidence
C8_Dedup ==
  pc = "cleaned" =>
    /\ \A i, j \in 1..Len(cleaned) :
         i # j => toLowerCase(cleaned[i].name) # toLowerCase(cleaned[j].name)
    /\ With(Alone(objects), LAMBDA alone :
         With(KeptPlaces(alone), LAMBDA kept :
           cleaned = [k \in 1..Cardinality(kept) |-> alone[Nth(kept, k)][1]]))

\* C8 witness: Crane then crane yields the single entry Crane
C8_Witness ==
  /\ pc = "cleaned"
  /\ objects = <<RawEntry(Sample.crane, Lit.high), RawEntry(Sample.craneLower, Lit.medium)>>
  /\ cleaned = <<Entry(Sample.crane, Lit.high)>>

\* C9: no entry of the output has a lowercased trimmed name in the blacklist
C9_BlacklistDropped ==
  pc = "cleaned" =>
    \A k \in 1..Len(cleaned) : toLowerCase(trim(cleaned[k].name)) \notin banned

JunkTokens == {Lit.dots, Lit.xxx, Lit.object}
IsJunk(o) ==
  \/ LowerName(o) \in JunkTokens
  \/ \E x \in 1..Len(junk) : includes(LowerName(o), junk[x])

\* C10: no entry of the output is named "...", "xxx" or "object"
\* case-insensitively or holds an instruction-echo phrase, and the output is
\* that of the list without such entries
C10_JunkRejected ==
  pc = "cleaned" =>
    /\ \A k \in 1..Len(cleaned) :
         /\ toLowerCase(trim(cleaned[k].name)) \notin JunkTokens
         /\ \A x \in 1..Len(junk) : ~includes(toLowerCase(cleaned[k].name), junk[x])
    /\ cleaned = Cleaner(SelectSeq(objects, LAMBDA o : ~IsJunk(o)))

\* C11: cleanObjects applied to the array it returned returns the same
\* array: the same entries, names and confidences, in the same order
\* (objects holds the first result, cleaned the second)
C11_Idempotent == pc = "recleaned" => AsRaw(cleaned) = objects

\* C11 witness: a list with a duplicate and an untrimmed entry, cleaned twice
C11_Witness ==
  /\ pc = "recleaned"
  /\ handler = "twoPhase"
  /\ cleaned = <<Entry(Sample.crane, Lit.high), Entry(trim(Sample.helmet), Lit.high)>>

\* the text of the payload v with every double quote backslash-escaped
Escaped(v) == EscapeQuotes(Stringify(v))
RecoveredFrom(t) == pc = "parsed" /\ handler = "latest" /\ text = JStr(t)

\* C12 as stated: the text of a well-formed payload with every double quote
\* backslash-escaped and no outer quotes recovers to that payload
C12_EscapedRecoversAsClaimed ==
  \A v \in WellFormed : RecoveredFrom(Escaped(v)) => parsed = v

\* the text of the payload holds no backslash: no string of it holds a
\* quote, a backslash or a control character
PlainText(v) == \A i \in 1..Len(Stringify(v)) : Stringify(v)[i] # "\\"

\* C12 as amended: for every well-formed payload the direct parse of the
\* escaped text fails and the escaped-quote marker is found; if the text of
\* the payload holds no backslash the repaired text parses and the payload
\* is recovered
C12_EscapedRecovers ==
  \A v \in WellFormed :
    RecoveredFrom(Escaped(v))
      => /\ ~JSONparse(Escaped(v)).ok
         /\ looksEscaped(Escaped(v))
         /\ PlainText(v)
              => /\ unescape(Escaped(v)) = Stringify(v)
                 /\ JSONparse(unescape(Escaped(v))).ok
                 /\ parsed = v

\* C12 witness: the escaped text of a payload with a caption and an entry
C12_Witness ==
  /\ RecoveredFrom(Escaped(Payload(<<"c">>, <<RawEntry(<<"a">>, Lit.high)>>)))
  /\ parsed = Payload(<<"c">>, <<RawEntry(<<"a">>, Lit.high)>>)

\* the text t inside prose without braces
Noisy(t) == Sample.proseBefore \o t \o Sample.proseAfter
\* the characters of s from its first { to its last }
Block(s) ==
  SubSeq(s, CHOOSE i \in 1..Len(s) : s[i] = "{" /\ \A j \in 1..(i - 1) : s[j] # "{",
            CHOOSE i \in 1..Len(s) : s[i] = "}" /\ \A j \in (i + 1)..Len(s) : s[j] # "}")

\* C13: a well-formed payload inside prose without braces is recovered: the
\* direct parse of the text fails, the block from the first { to the last }
\* is the payload text and parses; in the latest version a block that does
\* not parse is parsed in its escape-repaired form; a } before the only {
\* gives no block
C13_NoisyExtraction ==
  pc = "parsed" =>
    /\ \A v \in WellFormed :
         text = JStr(Noisy(Stringify(v)))
           => /\ ~JSONparse(Noisy(Stringify(v))).ok
              /\ Block(text.s) = Stringify(v)
              /\ parsed = v
    /\ \A v \in WellFormed :
         (handler = "latest" /\ PlainText(v) /\ text = JStr(Noisy(Escaped(v))))
           => /\ ~JSONparse(Block(text.s)).ok
              /\ parsed = v
    /\ text = JStr(Sample.braces) => parsed = JNull

\* C13 witness: "Here is the result: {...helmet...} Thanks!" in the version
\* that has the brace extraction only
C13_Witness ==
  /\ pc = "parsed"
  /\ handler = "noFallback"
  /\ text = JStr(Noisy(Stringify(
               JObj(<<Member(Key.objects,
                             JArr(<<RawEntry(trim(Sample.helmet), Lit.low)>>))>>))))
  /\ Get(parsed, Key.objects) = JArr(<<RawEntry(trim(Sample.helmet), Lit.low)>>)

\* the maximum of the version that ran
FallbackCap == IF handler = "early" THEN MaxFallbackEarly ELSE MaxFallback

\* C14: the fallback returns at most the maximum number of objects, each
\* with confidence low and a non-empty name of at most 40 characters
\* without "json", no two names equal case-insensitively; of a list of
\* fragments it returns the first ones, in text order
C14_FallbackCap ==
  pc = "extracted" =>
    /\ Len(cleaned) <= FallbackCap
    /\ \A k \in 1..Len(cleaned) :
         /\ cleaned[k].confidence = Lit.low
         /\ cleaned[k].name # <<>>
         /\ Len(cleaned[k].name) <= MaxFragmentLen
         /\ ~includes(toLowerCase(cleaned[k].name), Lit.json)
    /\ \A i, j \in 1..Len(cleaned) :
         i # j => toLowerCase(cleaned[i].name) # toLowerCase(cleaned[j].name)
    /\ \A n \in 1..MaxFragments :
         \A sep \in ListSeparators \ {<<"\n", "-", " ">>} :
           text = JStr(ListText(n, sep))
             => cleaned = [k \in 1..Min({n, FallbackCap}) |-> Entry(Fragment(k), Lit.low)]

\* C14 witness: a list of more fragments than the maximum, cut at the maximum
C14_Witness ==
  /\ pc = "extracted"
  /\ handler = "latest"
  /\ text = JStr(ListText(MaxFragments, <<";", " ">>))
  /\ Len(cleaned) = MaxFallback
  /\ MaxFragments > MaxFallback

\* a result is ok with status 200 and no error, or not ok with status 400 or
\* 500 and an error text
ResultWellFormed ==
  pc = "done" =>
    /\ "ok" \in resp.fields
    /\ resp.ok <=> "error" \notin resp.fields
    /\ resp.ok <=> resp.error = ""
    /\ resp.ok <=> resp.status = 200
    /\ resp.status \in {200, 400, 500}
\* the result is set by the step that ends the handler, once; a step that
\* ends the handler from an await is a rejection and gives the catch result
OneResult ==
  /\ pc # "done"
  /\ resp = NoReply
  /\ resp' # resp <=> pc' = "done"
  /\ (pc \in {"form", "bytes", "run", "phase2"} /\ pc' = "done")
       => ~resp'.ok /\ "error" \in resp'.fields /\ resp'.status = 500

C16_QuotedEndsInPayloadOrNull ==
  \A n \in 1..MaxQuoting :
    /\ \A v \in WellFormed :
         RecoveredFrom(QuoteWrap(Stringify(v), n)) => parsed = v
    /\ \A v \in NotPayload :
         RecoveredFrom(QuoteWrap(Stringify(v), n)) => parsed = JNull

ChecksPass == req.multipart /\ req.image /\ req.binding
\* the answer to a request that fails a check: the first check that fails,
\* in the order content type, image, binding, decides it
Refused ==
  /\ ~resp.ok
  /\ calls = 0
  /\ ai = JUndef
  /\ ~req.multipart
       => resp.status = 400 /\ resp.error = "Send multipart/form-data with field 'file'."
  /\ (req.multipart /\ ~req.image /\ resp # caught)
       => resp.status = 400 /\ resp.error = "Missing or invalid image file (field 'file')."
  /\ (req.multipart /\ req.image /\ resp # caught)
       => resp.status = 500 /\ resp.error = "Workers AI binding 'AI' is missing."
ModelGuarded ==
  /\ calls > 0 => ChecksPass
  /\ (pc = "done" /\ ~ChecksPass) => Refused
  /\ calls <= (IF handler = "twoPhase" THEN 2 ELSE 1)
  /\ calls = 2 => inventoryText # <<>>
\* env.AI.run is called from the two positions after the checks only, and
\* the second call of the two-phase version follows a first call that
\* returned a text that is not empty after trimming
CallStep ==
  calls' # calls
    => /\ calls' = calls + 1
       /\ ChecksPass
       /\ \/ pc = "run" /\ calls = 0
          \/ /\ pc = "phase2" /\ calls = 1 /\ handler = "twoPhase"
             /\ ~phaseText(ai).threw
             /\ phaseText(ai).s = inventoryText
             /\ inventoryText # <<>>

====
